---- MODULE Spec2Model ----
(***************************************************************************)
(* Peer session layer and message protocol layer of the Hyperswarm CLI:    *)
(* ConnectionManager (lib/ConnectionManager.js), MessageHandler            *)
(* (lib/MessageHandler.js) and the HyperswarmCLI orchestration (main.js).  *)
(* One action per event the host's event loop delivers; each action is the *)
(* whole handler, run to completion.                                       *)
(***************************************************************************)
EXTENDS Integers, Sequences, FiniteSets, TLC

\* ------------------------------------------------------------------ bounds
NumConns == 3      \* connection objects the transport may report
MaxHistory == 2    \* inbound data events that reach the history cap
MaxClock == 1      \* largest value of the local clock Date.now()

\* ------------------------------------------------------- JavaScript values
Undef == [k |-> "undef", n |-> 0, s |-> ""]
Null == [k |-> "null", n |-> 0, s |-> ""]
Num(n) == [k |-> "num", n |-> n, s |-> ""]
Str(s) == [k |-> "str", n |-> 0, s |-> s]

\* the keys a message object or a history entry can carry, in insertion order
FieldOrder == <<"type", "from", "message", "originalTimestamp", "timestamp", "peerId", "received">>
Fields == {FieldOrder[i] : i \in 1..Len(FieldOrder)}
EmptyObj == [f \in Fields |-> Undef]

\* an object literal {k1: v1, ...}: a later key overrides an earlier one
RECURSIVE ObjOf(_)
ObjOf(pairs) ==
  IF pairs = <<>> THEN EmptyObj
  ELSE LET last == pairs[Len(pairs)]
       IN [ObjOf(SubSeq(pairs, 1, Len(pairs) - 1)) EXCEPT ![last[1]] = last[2]]

\* ------------------------------------------------------------ JSON (codec)
\* JSON.stringify(obj): the own keys in order, keys whose value is undefined
\* are dropped
RECURSIVE PairsOf(_, _)
PairsOf(obj, order) ==
  IF order = <<>> THEN <<>>
  ELSE (IF obj[Head(order)] = Undef THEN <<>> ELSE <<(<<Head(order), obj[Head(order)]>>)>>)
       \o PairsOf(obj, Tail(order))

\* variant: the key originalTimestamp is not written
JsonStringifyDropsOriginal(obj) ==
  [kind |-> "object", pairs |-> PairsOf(obj, <<"type", "from", "message", "timestamp", "peerId", "received">>)]

JsonStringify(obj) == [kind |-> "object", pairs |-> PairsOf(obj, FieldOrder)]

\* bytes that are not JSON at all
Garbage == [kind |-> "garbage", pairs |-> <<>>]
JsonNull == [kind |-> "null", pairs |-> <<>>]
JsonScalar == [kind |-> "scalar", pairs |-> <<>>]

\* JSON.parse throws a SyntaxError on text that is not JSON
ParseThrows(text) == text.kind = "garbage"

\* JSON.parse(text) for well-formed text: null, a scalar or an object
ParseMessage(text) == [kind |-> text.kind, obj |-> ObjOf(text.pairs)]

\* {...message}: null and scalars spread to no keys
Spread(message) == IF message.kind = "object" THEN message.obj ELSE EmptyObj

\* ---------------------------------------------------------------- JS Map
NoConn == 0
Conns == 1..NumConns

RECURSIVE MapGet(_, _)
MapGet(m, key) ==
  IF m = <<>> THEN NoConn
  ELSE IF Head(m).peerId = key THEN Head(m).conn ELSE MapGet(Tail(m), key)

MapHas(m, key) == \E i \in 1..Len(m) : m[i].peerId = key

MapSize(m) == Len(m)

\* variant: every set appends an entry
MapSetAppend(m, key, c) == Append(m, [peerId |-> key, conn |-> c])

\* Map.set keeps the position of an existing key and appends a new one
MapSet(m, key, c) ==
  IF MapHas(m, key)
  THEN [i \in 1..Len(m) |-> IF m[i].peerId = key THEN [peerId |-> key, conn |-> c] ELSE m[i]]
  ELSE Append(m, [peerId |-> key, conn |-> c])

\* variant: the oldest entry is removed, whatever its key
MapDeleteFirst(m, key) == IF m = <<>> THEN <<>> ELSE Tail(m)

RECURSIVE MapDelete(_, _)
MapDelete(m, key) ==
  IF m = <<>> THEN <<>>
  ELSE IF Head(m).peerId = key THEN MapDelete(Tail(m), key)
       ELSE <<Head(m)>> \o MapDelete(Tail(m), key)

\* ------------------------------------------------------- peer identifiers
\* remote public keys of the connection objects: 1 and 2 differ only after
\* the first four bytes, and so do 3 and 4
RemotePublicKey(c) == <<171, 205, 1, c \div 3, c>>

HexDigits == <<"0", "1", "2", "3", "4", "5", "6", "7", "8", "9", "a", "b", "c", "d", "e", "f">>

RECURSIVE ToHex(_)
ToHex(bytes) ==
  IF bytes = <<>> THEN ""
  ELSE HexDigits[(Head(bytes) \div 16) + 1] \o HexDigits[(Head(bytes) % 16) + 1]
       \o ToHex(Tail(bytes))

Substring(s, from, to) == SubSeq(s, from + 1, IF to < Len(s) THEN to ELSE Len(s))

GeneratePeerId(c) == Substring(ToHex(RemotePublicKey(c)), 0, 8)

PeerIds == {GeneratePeerId(c) : c \in Conns}

\* ---------------------------------------------------------------- messages
Name == "self"

CreateWelcomeMessage(name, t) ==
  ObjOf(<< <<"type", Str("welcome")>>, <<"from", Str(name)>>,
           <<"message", Str("Hello from " \o name \o "!")>>, <<"timestamp", Num(t)>> >>)

\* variant: the message goes out as a chat message
CreateBroadcastMessageAsChat(name, message, t) ==
  ObjOf(<< <<"type", Str("chat")>>, <<"from", Str(name)>>,
           <<"message", message>>, <<"timestamp", Num(t)>> >>)

CreateBroadcastMessage(name, message, t) ==
  ObjOf(<< <<"type", Str("broadcast")>>, <<"from", Str(name)>>,
           <<"message", message>>, <<"timestamp", Num(t)>> >>)

CreatePingMessage(name, t) ==
  ObjOf(<< <<"type", Str("ping")>>, <<"from", Str(name)>>, <<"timestamp", Num(t)>> >>)

\* variant: the reply carries the time of the reply as originalTimestamp
CreatePongMessageFresh(name, message, t) ==
  ObjOf(<< <<"type", Str("pong")>>, <<"from", Str(name)>>,
           <<"originalTimestamp", Num(t)>>, <<"timestamp", Num(t)>> >>)

CreatePongMessage(name, message, t) ==
  ObjOf(<< <<"type", Str("pong")>>, <<"from", Str(name)>>,
           <<"originalTimestamp", message["timestamp"]>>, <<"timestamp", Num(t)>> >>)

\* a direct message, as a caller of sendToPeer would build it
ChatMessage(name, t) ==
  ObjOf(<< <<"type", Str("chat")>>, <<"from", Str(name)>>,
           <<"message", Str("hi")>>, <<"timestamp", Num(t)>> >>)

\* ------------------------------------------------------------------ state
VARIABLES
  connections,     \* ConnectionManager.connections: Map peerId -> connection, in insertion order
  connState,       \* transport side of each connection object: "fresh", "open" or "closed"
  messageHistory,  \* HyperswarmCLI.messageHistory
  now,             \* the local clock read by Date.now()
  proc,            \* "running", "destroying" (shutdown awaits swarm.destroy()) or "exited"
  last,            \* the handler that ran last and what it observed
  sends,           \* sendToPeer calls made by the last handler
  writes,          \* conn.write attempts made by the last handler
  ends,            \* conn.end attempts made by the last handler
  abortControllers,\* HyperswarmCLI.abortControllers: the controllers of pending waits
  pollPc,          \* start() and its discovery poll: "idle", "joining", "waiting" or "done"
  pollIndex,       \* the loop variable i of startPeerDiscoveryCheck
  steps,           \* what the last handler did to the poll, the sessions and the swarm, in order
  net              \* a second node on session 1: the texts in flight each way, its history, the pings sent

pollVars == <<abortControllers, pollPc, pollIndex>>

vars == <<connections, connState, messageHistory, now, proc, last, sends, writes, ends,
          abortControllers, pollPc, pollIndex, steps, net>>

\* no second node is attached
EmptyNet == [ab |-> <<>>, ba |-> <<>>, peerHistory |-> <<>>, pings |-> <<>>, peerPings |-> 0]

NoText == [kind |-> "none", pairs |-> <<>>]

NoLast == [op |-> "init", conn |-> NoConn, peerId |-> "", text |-> NoText,
           decoded |-> FALSE, handler |-> "none", logged |-> FALSE,
           uncaught |-> FALSE, ret |-> "none", input |-> "", arg |-> Undef,
           encodes |-> 0]

\* ------------------------------------------------------ ConnectionManager
\* variant: an identifier that is already registered keeps its connection
RegisterConnectionKeep(m, peerId, c) == IF MapHas(m, peerId) THEN m ELSE MapSet(m, peerId, c)

RegisterConnection(m, peerId, c) == MapSet(m, peerId, c)

\* variant: the close hook forgets to delete the entry
OnConnectionCloseKeep(m, peerId) == m

OnConnectionClose(m, peerId) == MapDelete(m, peerId)

\* variant: no check that the connection exists, so the write on undefined
\* throws a TypeError
SendToPeerUnguarded(m, peerId, message, F) ==
  LET conn == MapGet(m, peerId)
  IN [calls |-> <<[peerId |-> peerId, message |-> message]>>,
      writes |-> IF conn # NoConn
                 THEN <<[conn |-> conn, text |-> JsonStringify(message), ok |-> conn \notin F]>>
                 ELSE <<>>,
      threw |-> (conn = NoConn \/ conn \in F), ret |-> "undefined"]

\* sendToPeer: looks the connection up and writes if there is one; the write
\* is not guarded, and the function returns nothing in either case
SendToPeer(m, peerId, message, F) ==
  LET conn == MapGet(m, peerId)
  IN IF conn # NoConn
     THEN [calls |-> <<[peerId |-> peerId, message |-> message]>>,
           writes |-> <<[conn |-> conn, text |-> JsonStringify(message), ok |-> conn \notin F]>>,
           threw |-> conn \in F, ret |-> "undefined"]
     ELSE [calls |-> <<[peerId |-> peerId, message |-> message]>>,
           writes |-> <<>>, threw |-> FALSE, ret |-> "undefined"]

\* variant: the write is not guarded, the first one that throws ends the loop
RECURSIVE BroadcastLoopAbort(_, _, _)
BroadcastLoopAbort(m, text, F) ==
  IF m = <<>> THEN <<>>
  ELSE <<[conn |-> Head(m).conn, text |-> text, ok |-> Head(m).conn \notin F]>>
       \o (IF Head(m).conn \in F THEN <<>> ELSE BroadcastLoopAbort(Tail(m), text, F))

\* variant: a connection whose write throws is skipped without an attempt
RECURSIVE BroadcastLoopSkipFailing(_, _, _)
BroadcastLoopSkipFailing(m, text, F) ==
  IF m = <<>> THEN <<>>
  ELSE (IF Head(m).conn \in F THEN <<>>
        ELSE <<[conn |-> Head(m).conn, text |-> text, ok |-> TRUE]>>)
       \o BroadcastLoopSkipFailing(Tail(m), text, F)

\* variant: the first entry of the map is written twice
BroadcastLoopAgain(m, text, F) ==
  IF m = <<>> THEN <<>>
  ELSE <<[conn |-> Head(m).conn, text |-> text, ok |-> Head(m).conn \notin F]>>
       \o [i \in 1..Len(m) |-> [conn |-> m[i].conn, text |-> text, ok |-> m[i].conn \notin F]]

\* the loop of broadcast: one guarded write per entry of the map; connections
\* in F throw on write
RECURSIVE BroadcastLoop(_, _, _)
BroadcastLoop(m, text, F) ==
  IF m = <<>> THEN <<>>
  ELSE <<[conn |-> Head(m).conn, text |-> text, ok |-> Head(m).conn \notin F]>>
       \o BroadcastLoop(Tail(m), text, F)

\* variant: the write is not guarded, the first one that throws ends the loop
RECURSIVE PingLoopAbort(_, _, _)
PingLoopAbort(m, text, F) ==
  IF m = <<>> THEN <<>>
  ELSE <<[conn |-> Head(m).conn, text |-> text, ok |-> Head(m).conn \notin F]>>
       \o (IF Head(m).conn \in F THEN <<>> ELSE PingLoopAbort(Tail(m), text, F))

\* the loop of pingAllPeers
RECURSIVE PingLoop(_, _, _)
PingLoop(m, text, F) ==
  IF m = <<>> THEN <<>>
  ELSE <<[conn |-> Head(m).conn, text |-> text, ok |-> Head(m).conn \notin F]>>
       \o PingLoop(Tail(m), text, F)

\* variant: the end is not guarded, the first one that throws ends the loop
RECURSIVE CloseAllConnectionsAbort(_, _)
CloseAllConnectionsAbort(m, G) ==
  IF m = <<>> THEN <<>>
  ELSE <<[conn |-> Head(m).conn, ok |-> Head(m).conn \notin G]>>
       \o (IF Head(m).conn \in G THEN <<>> ELSE CloseAllConnectionsAbort(Tail(m), G))

\* the loop of closeAllConnections: one guarded end() per entry; connections
\* in G throw on end
RECURSIVE CloseAllConnections(_, _)
CloseAllConnections(m, G) ==
  IF m = <<>> THEN <<>>
  ELSE <<[conn |-> Head(m).conn, ok |-> Head(m).conn \notin G]>>
       \o CloseAllConnections(Tail(m), G)

\* --------------------------------------------------------- MessageHandler
\* variant: unshift instead of push
RecordMessageFront(hist, message, peerId, t) ==
  <<[Spread(message) EXCEPT !["peerId"] = Str(peerId), !["received"] = Num(t)]>> \o hist

\* variant: the keys of the message are spread last and win
RecordMessageSpreadLast(hist, message, peerId, t) ==
  Append(hist, [f \in Fields |->
                  IF Spread(message)[f] # Undef THEN Spread(message)[f]
                  ELSE [EmptyObj EXCEPT !["peerId"] = Str(peerId), !["received"] = Num(t)][f]])

RecordMessage(hist, message, peerId, t) ==
  Append(hist, [Spread(message) EXCEPT !["peerId"] = Str(peerId), !["received"] = Num(t)])

\* variant: a ping is logged and not answered
HandlePingMessageSilent(m, peerId, message, t, F) ==
  [calls |-> <<>>, writes |-> <<>>, threw |-> FALSE, ret |-> "undefined"]

HandlePingMessage(m, peerId, message, t, F) ==
  SendToPeer(m, peerId, CreatePongMessage(Name, message, t), F)

NoSend == [calls |-> <<>>, writes |-> <<>>, threw |-> FALSE, ret |-> "none"]

\* variant: a received broadcast is sent back to its sender
ProcessMessageByTypeRelay(m, peerId, message, t, F) ==
  IF message.kind = "null"
  THEN [handler |-> "none", send |-> [NoSend EXCEPT !.threw = TRUE]]
  ELSE LET type == Spread(message)["type"]
       IN CASE type = Str("welcome") -> [handler |-> "welcome", send |-> NoSend]
            [] type = Str("chat") -> [handler |-> "chat", send |-> NoSend]
            [] type = Str("broadcast") ->
                 [handler |-> "broadcast", send |-> SendToPeer(m, peerId, Spread(message), F)]
            [] type = Str("ping") ->
                 [handler |-> "ping", send |-> HandlePingMessage(m, peerId, Spread(message), t, F)]
            [] type = Str("pong") -> [handler |-> "pong", send |-> NoSend]
            [] OTHER -> [handler |-> "unknown", send |-> NoSend]

\* the switch on message.type; reading .type of null throws a TypeError
ProcessMessageByType(m, peerId, message, t, F) ==
  IF message.kind = "null"
  THEN [handler |-> "none", send |-> [NoSend EXCEPT !.threw = TRUE]]
  ELSE LET type == Spread(message)["type"]
       IN CASE type = Str("welcome") -> [handler |-> "welcome", send |-> NoSend]
            [] type = Str("chat") -> [handler |-> "chat", send |-> NoSend]
            [] type = Str("broadcast") -> [handler |-> "broadcast", send |-> NoSend]
            [] type = Str("ping") ->
                 [handler |-> "ping", send |-> HandlePingMessage(m, peerId, Spread(message), t, F)]
            [] type = Str("pong") -> [handler |-> "pong", send |-> NoSend]
            [] OTHER -> [handler |-> "unknown", send |-> NoSend]

\* variant: the entry is pushed before the text is parsed
HandleIncomingMessageRecordFirst(m, hist, peerId, text, t, F) ==
  IF ParseThrows(text)
  THEN [history |-> RecordMessage(hist, ParseMessage(JsonNull), peerId, t), decoded |-> FALSE,
        handler |-> "none", send |-> NoSend, logged |-> TRUE]
  ELSE LET message == ParseMessage(text)
           p == ProcessMessageByType(m, peerId, message, t, F)
       IN [history |-> RecordMessage(hist, message, peerId, t), decoded |-> TRUE,
           handler |-> p.handler, send |-> p.send, logged |-> p.send.threw]

\* variant: the entry is pushed after the dispatch, and only if it returned
HandleIncomingMessageRecordLast(m, hist, peerId, text, t, F) ==
  IF ParseThrows(text)
  THEN [history |-> hist, decoded |-> FALSE, handler |-> "none", send |-> NoSend, logged |-> TRUE]
  ELSE LET message == ParseMessage(text)
           p == ProcessMessageByType(m, peerId, message, t, F)
       IN [history |-> IF p.send.threw THEN hist ELSE RecordMessage(hist, message, peerId, t),
           decoded |-> TRUE, handler |-> p.handler, send |-> p.send, logged |-> p.send.threw]

\* handleIncomingMessage: parse, record, dispatch; anything thrown inside is
\* caught and logged
HandleIncomingMessage(m, hist, peerId, text, t, F) ==
  IF ParseThrows(text)
  THEN [history |-> hist, decoded |-> FALSE, handler |-> "none", send |-> NoSend, logged |-> TRUE]
  ELSE LET message == ParseMessage(text)
           p == ProcessMessageByType(m, peerId, message, t, F)
       IN [history |-> RecordMessage(hist, message, peerId, t), decoded |-> TRUE,
           handler |-> p.handler, send |-> p.send, logged |-> p.send.threw]

\* ---------------------------------------------------------- HyperswarmCLI
\* shutdown() up to its await: closeAllConnections, then swarm.destroy() is
\* pending; process.exit follows when the destroy settles
ShutdownProc(p) == IF p = "running" THEN "destroying" ELSE p

\* the one controller startPeerDiscoveryCheck creates
Controller == "discovery"

\* the number of waits of the discovery poll
PollLimit == 6

\* the length of one wait, in milliseconds
PollDelay == 5000

RECURSIVE StepsOf(_, _)
StepsOf(n, step) == IF n = 0 THEN <<>> ELSE <<step>> \o StepsOf(n - 1, step)

\* variant: the swarm is destroyed before the sessions are closed
ShutdownStepsDestroyFirst(m, ctl, G) ==
  StepsOf(Cardinality(ctl), "abort") \o <<"destroy">> \o StepsOf(Len(CloseAllConnections(m, G)), "end")

\* the synchronous part of shutdown(): abort every tracked controller, end
\* every registered connection (guarded), call swarm.destroy()
ShutdownSteps(m, ctl, G) ==
  StepsOf(Cardinality(ctl), "abort") \o StepsOf(Len(CloseAllConnections(m, G)), "end") \o <<"destroy">>

\* the wait of the poll is rejected by the abort: the catch logs the
\* cancellation and the finally block ends the poll
PollAfterAbort(pc, ctl) == IF pc = "waiting" /\ Controller \in ctl THEN "done" ELSE pc

\* shutdown() up to its await, on the registry m
DoShutdown(m, G) ==
  /\ steps' = ShutdownSteps(m, abortControllers, G)
  /\ ends' = CloseAllConnections(m, G)
  /\ pollPc' = PollAfterAbort(pollPc, abortControllers)
  /\ abortControllers' = {}
  /\ proc' = ShutdownProc(proc)
  /\ UNCHANGED pollIndex

\* input.split(" "): the first piece is the command, args.join(" ") gives
\* back what follows the first space
RECURSIVE IndexOf(_, _, _)
IndexOf(str, ch, i) ==
  IF i > Len(str) THEN 0
  ELSE IF SubSeq(str, i, i) = ch THEN i ELSE IndexOf(str, ch, i + 1)

Command(input) ==
  LET i == IndexOf(input, " ", 1) IN IF i = 0 THEN input ELSE SubSeq(input, 1, i - 1)

ArgsJoined(input) ==
  LET i == IndexOf(input, " ", 1) IN IF i = 0 THEN "" ELSE SubSeq(input, i + 1, Len(input))

\* variant: the line is broadcast whether or not a session is registered
DefaultInputAlways(input, size) == [handler |-> "broadcast", arg |-> Str(input)]

\* the default branch of the switch: the whole line is broadcast when a
\* session is registered, else a warning is logged
DefaultInput(input, size) ==
  IF size > 0 THEN [handler |-> "broadcast", arg |-> Str(input)]
              ELSE [handler |-> "warn", arg |-> Undef]

\* variant: /broadcast passes the whole line and /exit is not a command
HandleUserInputWholeLine(input, size) ==
  LET command == Command(input)
  IN IF input = "" THEN [handler |-> "none", arg |-> Undef]
     ELSE CASE command = "/help" -> [handler |-> "help", arg |-> Undef]
            [] command = "/peers" -> [handler |-> "peers", arg |-> Undef]
            [] command = "/ping" -> [handler |-> "pingAllPeers", arg |-> Undef]
            [] command = "/broadcast" -> [handler |-> "broadcast", arg |-> Str(input)]
            [] command = "/history" -> [handler |-> "history", arg |-> Undef]
            [] command = "/status" -> [handler |-> "status", arg |-> Undef]
            [] command = "/topic" -> [handler |-> "topic", arg |-> Undef]
            [] command = "/quit" -> [handler |-> "shutdown", arg |-> Undef]
            [] OTHER -> DefaultInput(input, size)

\* the switch of handleUserInput: which method runs, and with which message
HandleUserInput(input, size) ==
  LET command == Command(input)
  IN IF input = "" THEN [handler |-> "none", arg |-> Undef]
     ELSE CASE command = "/help" -> [handler |-> "help", arg |-> Undef]
            [] command = "/peers" -> [handler |-> "peers", arg |-> Undef]
            [] command = "/ping" -> [handler |-> "pingAllPeers", arg |-> Undef]
            [] command = "/broadcast" -> [handler |-> "broadcast", arg |-> Str(ArgsJoined(input))]
            [] command = "/history" -> [handler |-> "history", arg |-> Undef]
            [] command = "/status" -> [handler |-> "status", arg |-> Undef]
            [] command = "/topic" -> [handler |-> "topic", arg |-> Undef]
            [] command \in {"/quit", "/exit"} -> [handler |-> "shutdown", arg |-> Undef]
            [] OTHER -> DefaultInput(input, size)

\* ----------------------------------------------------------------- inputs
Wire(pairs) == [kind |-> "object", pairs |-> pairs]

RemoteTime == 7

PingWire == Wire(<< <<"type", Str("ping")>>, <<"from", Str("bob")>>, <<"timestamp", Num(RemoteTime)>> >>)
WelcomeWire == Wire(<< <<"type", Str("welcome")>>, <<"from", Str("bob")>>, <<"message", Str("hi")>>, <<"timestamp", Num(RemoteTime)>> >>)
BogusWire == Wire(<< <<"type", Str("bogus")>>, <<"from", Str("x")>>, <<"timestamp", Num(1)>> >>)
NoTypeWire == Wire(<< <<"from", Str("bob")>>, <<"message", Str("hi")>>, <<"timestamp", Num(RemoteTime)>> >>)
NoFromWire == Wire(<< <<"type", Str("chat")>>, <<"message", Str("hi")>>, <<"timestamp", Num(RemoteTime)>> >>)
NoTimestampWire == Wire(<< <<"type", Str("ping")>>, <<"from", Str("bob")>>, <<"timestamp", Str("soon")>> >>)
EmptyMessageWire == Wire(<< <<"type", Str("broadcast")>>, <<"from", Str("bob")>>, <<"message", Str("")>>, <<"timestamp", Num(RemoteTime)>> >>)
NoOriginalWire == Wire(<< <<"type", Str("pong")>>, <<"from", Str("bob")>>, <<"timestamp", Num(RemoteTime)>> >>)
BroadcastWire == Wire(<< <<"type", Str("broadcast")>>, <<"from", Str("bob")>>, <<"message", Str("hi")>>, <<"timestamp", Num(RemoteTime)>> >>)
ChatWire == Wire(<< <<"type", Str("chat")>>, <<"from", Str("bob")>>, <<"message", Str("hi")>>, <<"timestamp", Num(RemoteTime)>> >>)
SpoofWire == Wire(<< <<"type", Str("chat")>>, <<"from", Str("self")>>, <<"message", Str("hi")>>, <<"timestamp", Num(RemoteTime)>>, <<"peerId", Str("evil")>>, <<"received", Num(RemoteTime)>> >>)
PongWire == Wire(<< <<"type", Str("pong")>>, <<"from", Str("bob")>>, <<"originalTimestamp", Num(0)>>, <<"timestamp", Num(RemoteTime)>> >>)

\* the byte sequences a remote peer sends in the runs of SpecData
Payloads == {Garbage, PingWire}

\* the byte sequences a remote peer sends in the runs of SpecRouter
RouterPayloads ==
  {Garbage, JsonNull, JsonScalar, PingWire, WelcomeWire, PongWire, BogusWire, NoTypeWire,
   NoFromWire, NoTimestampWire, EmptyMessageWire, NoOriginalWire, BroadcastWire, ChatWire,
   SpoofWire}

\* the lines the local user types, trimmed by the stdin hook
InputLines ==
  {"", "hello world", "/help", "/peers", "/ping", "/broadcast hi there", "/broadcast",
   "/history", "/status", "/topic", "/quit", "/exit", "/bogus"}

\* the texts the local user broadcasts
Texts == {Str("hi"), Str("")}

Registered(m) == {m[i].conn : i \in 1..Len(m)}

\* ------------------------------------------------------------------- Init
Init ==
  /\ connections = <<>>
  /\ connState = [c \in Conns |-> "fresh"]
  /\ messageHistory = <<>>
  /\ now = 0
  /\ proc = "running"
  /\ last = NoLast
  /\ sends = <<>>
  /\ writes = <<>>
  /\ ends = <<>>
  /\ abortControllers = {}
  /\ pollPc = "idle"
  /\ pollIndex = 0
  /\ steps = <<>>
  /\ net = EmptyNet

\* ---------------------------------------------------------------- actions
\* variant: the welcome is sent before the connection is registered
HandleConnectionWelcomeFirst(c, wfail, G) ==
  /\ proc # "exited"
  /\ connState[c] = "fresh"
  /\ LET peerId == GeneratePeerId(c)
         send == SendToPeer(connections, peerId, CreateWelcomeMessage(Name, now),
                            IF wfail THEN {MapGet(connections, peerId)} ELSE {})
         m == RegisterConnection(connections, peerId, c)
     IN /\ connections' = m
        /\ connState' = [connState EXCEPT ![c] = "open"]
        /\ sends' = send.calls
        /\ writes' = send.writes
        /\ IF send.threw THEN DoShutdown(m, G)
                         ELSE ends' = <<>> /\ steps' = <<>> /\ UNCHANGED <<proc, pollVars>>
        /\ last' = [NoLast EXCEPT !.op = "connection", !.conn = c, !.peerId = peerId,
                                  !.logged = send.threw, !.uncaught = send.threw,
                                  !.ret = send.ret]
  /\ UNCHANGED <<messageHistory, now>>
  /\ UNCHANGED net

\* variant: no handler of uncaughtException, the exception ends the process
HandleConnectionCrash(c, wfail, G) ==
  /\ proc # "exited"
  /\ connState[c] = "fresh"
  /\ LET peerId == GeneratePeerId(c)
         m == RegisterConnection(connections, peerId, c)
         send == SendToPeer(m, peerId, CreateWelcomeMessage(Name, now), IF wfail THEN {c} ELSE {})
     IN /\ connections' = m
        /\ connState' = [connState EXCEPT ![c] = "open"]
        /\ sends' = send.calls
        /\ writes' = send.writes
        /\ ends' = <<>> /\ steps' = <<>>
        /\ proc' = IF send.threw THEN "exited" ELSE proc
        /\ UNCHANGED pollVars
        /\ last' = [NoLast EXCEPT !.op = "connection", !.conn = c, !.peerId = peerId,
                                  !.logged = FALSE, !.uncaught = send.threw,
                                  !.ret = send.ret, !.encodes = Len(send.writes)]
  /\ UNCHANGED <<messageHistory, now>>
  /\ UNCHANGED net

\* swarm "connection" event: ConnectionManager.handleConnection.  The welcome
\* write is not guarded: when it throws, the exception leaves the handler and
\* reaches process.on("uncaughtException"), which calls shutdown().
HandleConnection(c, wfail, G) ==
  /\ proc # "exited"
  /\ connState[c] = "fresh"
  /\ LET peerId == GeneratePeerId(c)
         m == RegisterConnection(connections, peerId, c)
         send == SendToPeer(m, peerId, CreateWelcomeMessage(Name, now), IF wfail THEN {c} ELSE {})
     IN /\ connections' = m
        /\ connState' = [connState EXCEPT ![c] = "open"]
        /\ sends' = send.calls
        /\ writes' = send.writes
        /\ IF send.threw THEN DoShutdown(m, G)
                         ELSE ends' = <<>> /\ steps' = <<>> /\ UNCHANGED <<proc, pollVars>>
        /\ last' = [NoLast EXCEPT !.op = "connection", !.conn = c, !.peerId = peerId,
                                  !.logged = send.threw, !.uncaught = send.threw,
                                  !.ret = send.ret, !.encodes = Len(send.writes)]
  /\ UNCHANGED <<messageHistory, now>>
  /\ UNCHANGED net

\* "data" event of a connection: MessageHandler.handleIncomingMessage with
\* the peerId captured when the hooks were attached
OnData(c, text, F) ==
  /\ proc # "exited"
  /\ connState[c] = "open"
  /\ Len(messageHistory) < MaxHistory
  /\ LET peerId == GeneratePeerId(c)
         r == HandleIncomingMessage(connections, messageHistory, peerId, text, now, F)
     IN /\ messageHistory' = r.history
        /\ sends' = r.send.calls
        /\ writes' = r.send.writes
        /\ ends' = <<>> /\ steps' = <<>>
        /\ last' = [NoLast EXCEPT !.op = "data", !.conn = c, !.peerId = peerId, !.text = text,
                                  !.decoded = r.decoded, !.handler = r.handler,
                                  !.logged = r.logged, !.ret = r.send.ret,
                                  !.encodes = Len(r.send.writes)]
  /\ UNCHANGED <<connections, connState, now, proc, pollVars>>
  /\ UNCHANGED net

\* variant: the close hook leaves the registry alone
OnCloseNoDelete(c) ==
  /\ proc # "exited"
  /\ connState[c] = "open"
  /\ connState' = [connState EXCEPT ![c] = "closed"]
  /\ sends' = <<>> /\ writes' = <<>> /\ ends' = <<>>
  /\ last' = [NoLast EXCEPT !.op = "close", !.conn = c, !.peerId = GeneratePeerId(c)]
  /\ steps' = <<>>
  /\ UNCHANGED <<connections, messageHistory, now, proc, pollVars>>
  /\ UNCHANGED net

\* "close" event of a connection: onConnectionClose with the captured peerId
OnClose(c) ==
  /\ proc # "exited"
  /\ connState[c] = "open"
  /\ connections' = OnConnectionClose(connections, GeneratePeerId(c))
  /\ connState' = [connState EXCEPT ![c] = "closed"]
  /\ sends' = <<>> /\ writes' = <<>> /\ ends' = <<>>
  /\ last' = [NoLast EXCEPT !.op = "close", !.conn = c, !.peerId = GeneratePeerId(c)]
  /\ steps' = <<>>
  /\ UNCHANGED <<messageHistory, now, proc, pollVars>>
  /\ UNCHANGED net

\* variant: the error hook unregisters the connection
OnErrorUnregister(c) ==
  /\ proc # "exited"
  /\ connState[c] = "open"
  /\ connections' = OnConnectionClose(connections, GeneratePeerId(c))
  /\ sends' = <<>> /\ writes' = <<>> /\ ends' = <<>>
  /\ last' = [NoLast EXCEPT !.op = "error", !.conn = c, !.peerId = GeneratePeerId(c), !.logged = TRUE]
  /\ steps' = <<>>
  /\ UNCHANGED <<connState, messageHistory, now, proc, pollVars>>
  /\ UNCHANGED net

\* "error" event of a connection: onConnectionError only logs
OnError(c) ==
  /\ proc # "exited"
  /\ connState[c] = "open"
  /\ sends' = <<>> /\ writes' = <<>> /\ ends' = <<>>
  /\ last' = [NoLast EXCEPT !.op = "error", !.conn = c, !.peerId = GeneratePeerId(c), !.logged = TRUE]
  /\ steps' = <<>>
  /\ UNCHANGED <<connections, connState, messageHistory, now, proc, pollVars>>
  /\ UNCHANGED net

\* variant: a connection whose write throws is dropped from the registry
BroadcastDropFailing(message, F) ==
  /\ proc # "exited"
  /\ sends' = <<>>
  /\ writes' = BroadcastLoop(connections, JsonStringify(CreateBroadcastMessage(Name, message, now)), F)
  /\ ends' = <<>>
  /\ last' = [NoLast EXCEPT !.op = "broadcast", !.logged = (F # {}), !.ret = "undefined",
                            !.arg = message]
  /\ steps' = <<>>
  /\ connections' = SelectSeq(connections, LAMBDA e : e.conn \notin F)
  /\ UNCHANGED <<connState, messageHistory, now, proc, pollVars>>
  /\ UNCHANGED net

\* HyperswarmCLI.broadcast({message}) -> ConnectionManager.broadcast
Broadcast(message, F) ==
  /\ proc # "exited"
  /\ sends' = <<>>
  /\ writes' = BroadcastLoop(connections, JsonStringify(CreateBroadcastMessage(Name, message, now)), F)
  /\ ends' = <<>>
  /\ last' = [NoLast EXCEPT !.op = "broadcast", !.logged = (F # {}), !.ret = "undefined",
                            !.arg = message, !.encodes = MapSize(connections)]
  /\ steps' = <<>>
  /\ UNCHANGED <<connections, connState, messageHistory, now, proc, pollVars>>
  /\ UNCHANGED net

\* HyperswarmCLI.pingAllPeers() -> ConnectionManager.pingAllPeers
PingAllPeers(F) ==
  /\ proc # "exited"
  /\ sends' = <<>>
  /\ writes' = PingLoop(connections, JsonStringify(CreatePingMessage(Name, now)), F)
  /\ ends' = <<>>
  /\ last' = [NoLast EXCEPT !.op = "ping", !.logged = (F # {}), !.ret = "undefined",
                            !.encodes = MapSize(connections)]
  /\ steps' = <<>>
  /\ UNCHANGED <<connections, connState, messageHistory, now, proc, pollVars>>
  /\ UNCHANGED net

\* SIGINT / SIGTERM: shutdown()
Shutdown(G) ==
  /\ proc # "exited"
  /\ DoShutdown(connections, G)
  /\ sends' = <<>> /\ writes' = <<>>
  /\ last' = [NoLast EXCEPT !.op = "shutdown", !.logged = (G # {})]
  /\ UNCHANGED <<connections, connState, messageHistory, now>>
  /\ UNCHANGED net

\* swarm.destroy() settles, resolved or rejected (dfail, caught and logged):
\* process.exit(0)
Exit(dfail) ==
  /\ proc = "destroying"
  /\ proc' = "exited"
  /\ sends' = <<>> /\ writes' = <<>> /\ ends' = <<>>
  /\ steps' = <<"exit">>
  /\ last' = [NoLast EXCEPT !.op = "exit", !.logged = dfail]
  /\ UNCHANGED <<connections, connState, messageHistory, now, pollVars>>
  /\ UNCHANGED net

\* HyperswarmCLI.sendToPeer({peerId, message}) called directly: the bound
\* method handed to the MessageHandler; an exception of the write reaches the
\* caller
SendToPeerCall(peerId, F) ==
  /\ proc # "exited"
  /\ LET send == SendToPeer(connections, peerId, ChatMessage(Name, now), F)
     IN /\ sends' = send.calls
        /\ writes' = send.writes
        /\ last' = [NoLast EXCEPT !.op = "send", !.peerId = peerId,
                                  !.ret = IF send.threw THEN "exception" ELSE send.ret,
                                  !.encodes = Len(send.writes)]
  /\ ends' = <<>> /\ steps' = <<>>
  /\ UNCHANGED <<connections, connState, messageHistory, now, proc, pollVars>>
  /\ UNCHANGED net

\* "userInput" event: handleUserInput({input}); F are the connections whose
\* write throws, G those whose end throws
UserInput(input, F, G) ==
  /\ proc # "exited"
  /\ LET d == HandleUserInput(input, MapSize(connections))
     IN /\ writes' = CASE d.handler = "broadcast" ->
                           BroadcastLoop(connections,
                                         JsonStringify(CreateBroadcastMessage(Name, d.arg, now)), F)
                        [] d.handler = "pingAllPeers" ->
                           PingLoop(connections, JsonStringify(CreatePingMessage(Name, now)), F)
                        [] OTHER -> <<>>
        /\ IF d.handler = "shutdown" THEN DoShutdown(connections, G)
                                     ELSE ends' = <<>> /\ steps' = <<>> /\ UNCHANGED <<proc, pollVars>>
        /\ last' = [NoLast EXCEPT !.op = "input", !.input = input, !.handler = d.handler,
                                  !.arg = d.arg,
                                  !.logged = (d.handler = "warn" \/ F # {} \/ G # {}),
                                  !.encodes = IF d.handler \in {"broadcast", "pingAllPeers"}
                                              THEN MapSize(connections) ELSE 0]
  /\ sends' = <<>>
  /\ UNCHANGED <<connections, connState, messageHistory, now>>
  /\ UNCHANGED net

\* start(): the swarm is joined and the flush of the discovery is awaited
Start ==
  /\ proc = "running"
  /\ pollPc = "idle"
  /\ pollPc' = "joining"
  /\ sends' = <<>> /\ writes' = <<>> /\ ends' = <<>> /\ steps' = <<>>
  /\ last' = [NoLast EXCEPT !.op = "start"]
  /\ UNCHANGED <<connections, connState, messageHistory, now, proc, abortControllers, pollIndex>>
  /\ UNCHANGED net

\* discovery.flushed() resolves: startPeerDiscoveryCheck creates and tracks
\* its controller and begins the first wait
Flushed ==
  /\ proc # "exited"
  /\ pollPc = "joining"
  /\ pollPc' = "waiting"
  /\ pollIndex' = 0
  /\ abortControllers' = abortControllers \cup {Controller}
  /\ sends' = <<>> /\ writes' = <<>> /\ ends' = <<>> /\ steps' = <<>>
  /\ last' = [NoLast EXCEPT !.op = "flushed", !.arg = Num(PollDelay)]
  /\ UNCHANGED <<connections, connState, messageHistory, now, proc>>
  /\ UNCHANGED net

\* variant: no finally block, the controller stays tracked
DelayElapsedLeak ==
  /\ proc # "exited"
  /\ pollPc = "waiting"
  /\ LET more == MapSize(connections) = 0 /\ pollIndex + 1 < PollLimit
     IN /\ pollPc' = IF more THEN "waiting" ELSE "done"
        /\ pollIndex' = IF MapSize(connections) = 0 THEN pollIndex + 1 ELSE pollIndex
        /\ last' = [NoLast EXCEPT !.op = "delay", !.logged = (MapSize(connections) = 0),
                                  !.arg = IF more THEN Num(PollDelay) ELSE Undef]
  /\ sends' = <<>> /\ writes' = <<>> /\ ends' = <<>> /\ steps' = <<>>
  /\ UNCHANGED <<connections, connState, messageHistory, now, proc, abortControllers>>
  /\ UNCHANGED net

\* variant: the loop does not break when a session is registered
DelayElapsedNoBreak ==
  /\ proc # "exited"
  /\ pollPc = "waiting"
  /\ LET more == pollIndex + 1 < PollLimit
     IN /\ pollPc' = IF more THEN "waiting" ELSE "done"
        /\ pollIndex' = pollIndex + 1
        /\ abortControllers' = IF more THEN abortControllers ELSE abortControllers \ {Controller}
        /\ last' = [NoLast EXCEPT !.op = "delay", !.logged = (MapSize(connections) = 0),
                                  !.arg = IF more THEN Num(PollDelay) ELSE Undef]
  /\ sends' = <<>> /\ writes' = <<>> /\ ends' = <<>> /\ steps' = <<>>
  /\ UNCHANGED <<connections, connState, messageHistory, now, proc>>
  /\ UNCHANGED net

\* a wait of the poll elapses: with no session the loop goes on to its next
\* wait, up to PollLimit of them; with a session it breaks; the finally block
\* forgets the controller
DelayElapsed ==
  /\ proc # "exited"
  /\ pollPc = "waiting"
  /\ LET more == MapSize(connections) = 0 /\ pollIndex + 1 < PollLimit
     IN /\ pollPc' = IF more THEN "waiting" ELSE "done"
        /\ pollIndex' = IF MapSize(connections) = 0 THEN pollIndex + 1 ELSE pollIndex
        /\ abortControllers' = IF more THEN abortControllers ELSE abortControllers \ {Controller}
        /\ last' = [NoLast EXCEPT !.op = "delay", !.logged = (MapSize(connections) = 0),
                                  !.arg = IF more THEN Num(PollDelay) ELSE Undef]
  /\ sends' = <<>> /\ writes' = <<>> /\ ends' = <<>> /\ steps' = <<>>
  /\ UNCHANGED <<connections, connState, messageHistory, now, proc>>
  /\ UNCHANGED net

\* time passes: no handler runs
Tick ==
  /\ proc # "exited"
  /\ now < MaxClock
  /\ now' = now + 1
  /\ sends' = <<>> /\ writes' = <<>> /\ ends' = <<>>
  /\ last' = [NoLast EXCEPT !.op = "tick"]
  /\ steps' = <<>>
  /\ UNCHANGED <<connections, connState, messageHistory, proc, pollVars>>
  /\ UNCHANGED net

\* the registry, the fan-outs and the shutdown under the events of the
\* transport, the calls of the local user and the signals of the host
Next ==
  \/ \E c \in Conns, wfail \in BOOLEAN :
       \E G \in (IF wfail THEN SUBSET (Registered(connections) \cup {c}) ELSE {{}}) :
         HandleConnection(c, wfail, G)
  \/ \E c \in Conns : OnClose(c)
  \/ \E c \in Conns : OnError(c)
  \/ \E message \in Texts, F \in SUBSET Registered(connections) : Broadcast(message, F)
  \/ \E F \in SUBSET Registered(connections) : PingAllPeers(F)
  \/ \E peerId \in PeerIds :
       \E F \in SUBSET ({MapGet(connections, peerId)} \ {NoConn}) : SendToPeerCall(peerId, F)
  \/ \E G \in SUBSET Registered(connections) : Shutdown(G)
  \/ \E dfail \in BOOLEAN : Exit(dfail)
  \/ Tick

Spec == Init /\ [][Next]_vars

\* the inbound path: sessions open, receive data and close while time passes
NextData ==
  \/ \E c \in Conns : HandleConnection(c, FALSE, {})
  \/ \E c \in Conns, text \in Payloads :
       \E F \in SUBSET ({MapGet(connections, GeneratePeerId(c))} \ {NoConn}) : OnData(c, text, F)
  \/ \E c \in Conns : OnClose(c)
  \/ Tick

SpecData == Init /\ [][NextData]_vars

\* the router under every kind of payload, on two sessions with different
\* identifiers that stay open
RouterConns == {1, NumConns}

NextRouter ==
  \/ \E c \in RouterConns : HandleConnection(c, FALSE, {})
  \/ \E c \in RouterConns, text \in RouterPayloads :
       \E F \in SUBSET ({MapGet(connections, GeneratePeerId(c))} \ {NoConn}) : OnData(c, text, F)

SpecRouter == Init /\ [][NextRouter]_vars

\* every handler on two sessions with different identifiers: connections,
\* data, closes, errors, the calls and lines of the local user and the
\* shutdown
NextAll ==
  \/ \E c \in RouterConns, wfail \in BOOLEAN :
       \E G \in (IF wfail THEN SUBSET (Registered(connections) \cup {c}) ELSE {{}}) :
         HandleConnection(c, wfail, G)
  \/ \E c \in RouterConns, text \in Payloads :
       \E F \in SUBSET ({MapGet(connections, GeneratePeerId(c))} \ {NoConn}) : OnData(c, text, F)
  \/ \E c \in RouterConns : OnClose(c)
  \/ \E c \in RouterConns : OnError(c)
  \/ \E message \in Texts, F \in SUBSET Registered(connections) : Broadcast(message, F)
  \/ \E F \in SUBSET Registered(connections) : PingAllPeers(F)
  \/ \E peerId \in PeerIds :
       \E F \in SUBSET ({MapGet(connections, peerId)} \ {NoConn}) : SendToPeerCall(peerId, F)
  \/ \E input \in InputLines :
       \E F \in (IF HandleUserInput(input, MapSize(connections)).handler \in {"broadcast", "pingAllPeers"}
                 THEN SUBSET Registered(connections) ELSE {{}}),
          G \in (IF HandleUserInput(input, MapSize(connections)).handler = "shutdown"
                 THEN SUBSET Registered(connections) ELSE {{}}) :
         UserInput(input, F, G)
  \/ \E G \in SUBSET Registered(connections) : Shutdown(G)
  \/ \E dfail \in BOOLEAN : Exit(dfail)

SpecAll == Init /\ [][NextAll]_vars

\* the life of the process: start, the discovery poll, sessions that come
\* and go, the shutdown by command or signal, the exit
NextLife ==
  \/ Start
  \/ Flushed
  \/ DelayElapsed
  \/ \E c \in RouterConns, wfail \in BOOLEAN :
       \E G \in (IF wfail THEN SUBSET (Registered(connections) \cup {c}) ELSE {{}}) :
         HandleConnection(c, wfail, G)
  \/ \E c \in RouterConns : OnClose(c)
  \/ \E input \in {"/quit", "/exit"}, G \in SUBSET Registered(connections) : UserInput(input, {}, G)
  \/ \E G \in SUBSET Registered(connections) : Shutdown(G)
  \/ \E dfail \in BOOLEAN : Exit(dfail)

SpecLife == Init /\ [][NextLife]_vars

\* swarm.destroy() settles: its promise is resolved or rejected in the end
SpecLifeFair == SpecLife /\ WF_vars(\E dfail \in BOOLEAN : Exit(dfail))

\* the messages the five constructors build, for two names, three clock
\* values and two texts
CodecNames == {"self", "bob"}
CodecTimes == {0, 1, RemoteTime}
CodecTexts == {Str("hi"), Str("a b")}

ValidMessages ==
  {CreateWelcomeMessage(n, t) : n \in CodecNames, t \in CodecTimes}
  \cup {CreateBroadcastMessage(n[1], n[2], t) : n \in CodecNames \X CodecTexts, t \in CodecTimes}
  \cup {ChatMessage(n, t) : n \in CodecNames, t \in CodecTimes}
  \cup {CreatePingMessage(n, t) : n \in CodecNames, t \in CodecTimes}
  \cup {CreatePongMessage(n[1], CreatePingMessage("bob", n[2]), t) :
          n \in CodecNames \X CodecTimes, t \in CodecTimes}

\* one session is registered and a message is about to be handed to
\* sendToPeer
InitCodec ==
  /\ connections = <<[peerId |-> GeneratePeerId(1), conn |-> 1]>>
  /\ connState = [c \in Conns |-> IF c = 1 THEN "open" ELSE "fresh"]
  /\ messageHistory = <<>>
  /\ now = 0
  /\ proc = "running"
  /\ last = NoLast
  /\ sends \in {<<[peerId |-> GeneratePeerId(1), message |-> m]>> : m \in ValidMessages}
  /\ writes = <<>>
  /\ ends = <<>>
  /\ abortControllers = {}
  /\ pollPc = "idle"
  /\ pollIndex = 0
  /\ steps = <<>>
  /\ net = EmptyNet

\* sendToPeer({peerId, message}): the message is stringified and written
Encode ==
  /\ last.op = "init"
  /\ sends # <<>>
  /\ LET send == SendToPeer(connections, sends[1].peerId, sends[1].message, {})
     IN /\ sends' = send.calls
        /\ writes' = send.writes
        /\ last' = [NoLast EXCEPT !.op = "send", !.peerId = sends[1].peerId, !.ret = send.ret,
                                  !.encodes = Len(send.writes)]
  /\ ends' = <<>> /\ steps' = <<>>
  /\ UNCHANGED <<connections, connState, messageHistory, now, proc, pollVars>>
  /\ UNCHANGED net

\* the text that was written arrives as a "data" event and is parsed
Decode ==
  /\ last.op = "send"
  /\ writes # <<>>
  /\ OnData(1, writes[1].text, {})

NextCodec == Encode \/ Decode

\* the codec: what JSON.stringify writes is what JSON.parse reads
SpecCodec == InitCodec /\ [][NextCodec]_vars

\* two sessions that share one identifier, under every event of a session
SharedConns == {1, 2}

NextShared ==
  \/ \E c \in SharedConns : HandleConnection(c, FALSE, {})
  \/ \E c \in SharedConns, text \in Payloads :
       \E F \in SUBSET ({MapGet(connections, GeneratePeerId(c))} \ {NoConn}) : OnData(c, text, F)
  \/ \E c \in SharedConns : OnError(c)
  \/ \E c \in SharedConns : OnClose(c)
  \/ Tick

SpecShared == Init /\ [][NextShared]_vars

\* the timers of the event loop fire: a pending wait of the poll elapses
SpecPollFair == SpecLife /\ WF_vars(DelayElapsed)

\* ------------------------------------------------------------- two nodes
\* the public key of this node, and the identifier the second node derives
\* from it
SelfPublicKey == <<18, 52, 86, 120, 9>>

PeerIdOfSelf == Substring(ToHex(SelfPublicKey), 0, 8)

\* the registry of the second node: this node, on the session both share
PeerConnections == <<[peerId |-> PeerIdOfSelf, conn |-> 1]>>

TextsOf(ws) == [j \in 1..Len(ws) |-> ws[j].text]

\* session 1 is open and registered on both nodes
InitPair ==
  /\ connections = <<[peerId |-> GeneratePeerId(1), conn |-> 1]>>
  /\ connState = [c \in Conns |-> IF c = 1 THEN "open" ELSE "fresh"]
  /\ messageHistory = <<>>
  /\ now = 0
  /\ proc = "running"
  /\ last = NoLast
  /\ sends = <<>>
  /\ writes = <<>>
  /\ ends = <<>>
  /\ abortControllers = {}
  /\ pollPc = "idle"
  /\ pollIndex = 0
  /\ steps = <<>>
  /\ net = EmptyNet

\* pingAllPeers on this node; what it writes on the session travels to the
\* second node
PairPingAll ==
  /\ proc = "running"
  /\ Len(net.pings) + net.peerPings < MaxHistory
  /\ LET ws == PingLoop(connections, JsonStringify(CreatePingMessage(Name, now)), {})
     IN /\ writes' = ws
        /\ net' = [net EXCEPT !.ab = @ \o TextsOf(ws), !.pings = Append(@, now)]
  /\ sends' = <<>> /\ ends' = <<>> /\ steps' = <<>>
  /\ last' = [NoLast EXCEPT !.op = "ping", !.ret = "undefined", !.encodes = MapSize(connections)]
  /\ UNCHANGED <<connections, connState, messageHistory, now, proc, pollVars>>

\* pingAllPeers on the second node
PeerPingAll ==
  /\ Len(net.pings) + net.peerPings < MaxHistory
  /\ LET ws == PingLoop(PeerConnections, JsonStringify(CreatePingMessage(Name, RemoteTime)), {})
     IN net' = [net EXCEPT !.ba = @ \o TextsOf(ws), !.peerPings = @ + 1]
  /\ last' = [NoLast EXCEPT !.op = "peerPing"]
  /\ sends' = <<>> /\ writes' = <<>> /\ ends' = <<>> /\ steps' = <<>>
  /\ UNCHANGED <<connections, connState, messageHistory, now, proc, pollVars>>

\* "data" event on the second node: its handleIncomingMessage, with its own
\* clock; what it writes travels back
PeerData ==
  /\ net.ab # <<>>
  /\ \E r \in {HandleIncomingMessage(PeerConnections, net.peerHistory, PeerIdOfSelf,
                                       Head(net.ab), RemoteTime, {})} :
        /\ net' = [net EXCEPT !.ab = Tail(@), !.peerHistory = r.history,
                               !.ba = @ \o TextsOf(r.send.writes)]
        /\ last' = [NoLast EXCEPT !.op = "peer", !.text = Head(net.ab), !.decoded = r.decoded,
                                  !.handler = r.handler]
  /\ sends' = <<>> /\ writes' = <<>> /\ ends' = <<>> /\ steps' = <<>>
  /\ UNCHANGED <<connections, connState, messageHistory, now, proc, pollVars>>

\* "data" event on this node for the text at the head of the way back
PairData ==
  /\ proc = "running"
  /\ net.ba # <<>>
  /\ \E peerId \in {GeneratePeerId(1)} :
     \E r \in {HandleIncomingMessage(connections, messageHistory, peerId, Head(net.ba), now, {})} :
        /\ messageHistory' = r.history
        /\ sends' = r.send.calls
        /\ writes' = r.send.writes
        /\ net' = [net EXCEPT !.ba = Tail(@), !.ab = @ \o TextsOf(r.send.writes)]
        /\ last' = [NoLast EXCEPT !.op = "data", !.conn = 1, !.peerId = peerId,
                                  !.text = Head(net.ba), !.decoded = r.decoded,
                                  !.handler = r.handler, !.logged = r.logged, !.ret = r.send.ret,
                                  !.encodes = Len(r.send.writes)]
  /\ ends' = <<>> /\ steps' = <<>>
  /\ UNCHANGED <<connections, connState, now, proc, pollVars>>

NextPair == PairPingAll \/ PeerPingAll \/ PeerData \/ PairData \/ Tick

SpecPair == InitPair /\ [][NextPair]_vars

\* the session is reliable and both nodes keep running: a text in flight is
\* delivered and handled
SpecPairFair == SpecPair /\ WF_vars(PeerData) /\ WF_vars(PairData)

\* =================================================================== claims
IsPrefix(a, b) == Len(a) <= Len(b) /\ SubSeq(b, 1, Len(a)) = a

WritesTo(c) == {j \in 1..Len(writes) : writes[j].conn = c}

\* the validity rules of a message, as the test suite states them
\* (validateMessage)
Truthy(v) == (v.k = "num" /\ v.n # 0) \/ (v.k = "str" /\ v.s # "")

ValidateMessage(message) ==
  /\ message.kind = "object"
  /\ LET msg == message.obj
     IN /\ Truthy(msg["type"])
        /\ Truthy(msg["from"])
        /\ Truthy(msg["timestamp"]) /\ msg["timestamp"].k = "num"
        /\ CASE msg["type"] \in {Str("welcome"), Str("chat"), Str("broadcast")} ->
                  msg["message"].k = "str" /\ msg["message"].s # ""
             [] msg["type"] = Str("ping") -> TRUE
             [] msg["type"] = Str("pong") -> msg["originalTimestamp"].k = "num"
             [] OTHER -> FALSE

KnownTypes == {Str("welcome"), Str("chat"), Str("broadcast"), Str("ping"), Str("pong")}

\* C1: a broadcast with N registered sessions makes exactly N write attempts,
\* one on each registered session, whichever of the writes throw.
C1_BroadcastWritesEverySession ==
  last.op = "broadcast" =>
    /\ Len(writes) = MapSize(connections)
    /\ \A i \in 1..Len(connections) : Cardinality(WritesTo(connections[i].conn)) = 1

\* a broadcast whose first write threw and whose second write was still made
C1_Witness ==
  /\ last.op = "broadcast"
  /\ Len(writes) = 2
  /\ ~writes[1].ok
  /\ writes[2].ok

\* C2: routing a ping from identifier p makes exactly one sendToPeer call, of
\* a pong addressed to p whose originalTimestamp is the ping's timestamp, and
\* writes to no session registered under another identifier.
C2_PingAnsweredByOnePong ==
  (last.op = "data" /\ last.handler = "ping") =>
    /\ Len(sends) = 1
    /\ sends[1].peerId = last.peerId
    /\ sends[1].message["type"] = Str("pong")
    /\ sends[1].message["originalTimestamp"] = ParseMessage(last.text).obj["timestamp"]
    /\ \A i \in 1..Len(connections) :
         connections[i].peerId # last.peerId => WritesTo(connections[i].conn) = {}

\* a ping was routed while another identifier was registered too, and the
\* pong was written
C2_Witness ==
  /\ last.op = "data"
  /\ last.handler = "ping"
  /\ Len(connections) = 2
  /\ Len(writes) = 1
  /\ now > 0

\* C3: the history only grows at its end: every step leaves the existing
\* entries in place and in order, and a decoded inbound message adds exactly
\* one entry.
C3_HistoryAppendOnly ==
  [][/\ IsPrefix(messageHistory, messageHistory')
     /\ Len(messageHistory') <= Len(messageHistory) + 1
     /\ (last'.op = "data" /\ last'.decoded) => Len(messageHistory') = Len(messageHistory) + 1]_vars

\* two different entries, in the order they were processed
C3_Witness ==
  /\ Len(messageHistory) = 2
  /\ messageHistory[1] # messageHistory[2]
  /\ messageHistory[1]["received"].n < messageHistory[2]["received"].n

\* C4: an inbound payload that parses but breaks the validity rules (no type,
\* no from, no numeric timestamp, no message, no originalTimestamp) is not
\* appended to the history and is not dispatched.
C4_InvalidMessageRejected ==
  [][(/\ last'.op = "data"
      /\ ~ParseThrows(last'.text)
      /\ ~ValidateMessage(ParseMessage(last'.text)))
       => (messageHistory' = messageHistory /\ last'.handler = "none")]_vars

\* C5: an inbound message of an unknown type, with a valid from and
\* timestamp, never reaches the router and leaves no history entry.
C5_UnknownTypeRejected ==
  [][(/\ last'.op = "data"
      /\ last'.text.kind = "object"
      /\ LET msg == ParseMessage(last'.text).obj
         IN /\ Truthy(msg["type"]) /\ msg["type"] \notin KnownTypes
            /\ Truthy(msg["from"])
            /\ Truthy(msg["timestamp"]) /\ msg["timestamp"].k = "num")
       => (messageHistory' = messageHistory /\ last'.handler \notin {"unknown"} \cup
             {"welcome", "chat", "broadcast", "ping", "pong"})]_vars

\* C6: a data event whose bytes are not JSON changes nothing: registry,
\* history and process state stay as they were, nothing is written, and the
\* session stays open for later data events.
C6_MalformedDataHasNoEffect ==
  [][(last'.op = "data" /\ ParseThrows(last'.text)) =>
       /\ connections' = connections
       /\ messageHistory' = messageHistory
       /\ connState' = connState
       /\ proc' = proc
       /\ writes' = <<>> /\ sends' = <<>> /\ ends' = <<>>
       /\ ~last'.uncaught
       /\ connState'[last'.conn] = "open"]_vars

\* malformed bytes arrived on a registered session after a message was
\* recorded
C6_Witness ==
  /\ last.op = "data"
  /\ ParseThrows(last.text)
  /\ MapGet(connections, last.peerId) = last.conn
  /\ messageHistory # <<>>

\* C7: after a connection event for session c with identifier id, get(id) is
\* c; the size grew by one if id was new and is unchanged if id was taken;
\* the entries of all other identifiers are unchanged.
C7_RegisterInsertsOrReplaces ==
  [][last'.op = "connection" =>
       /\ MapGet(connections', last'.peerId) = last'.conn
       /\ MapSize(connections') =
            MapSize(connections) + (IF MapHas(connections, last'.peerId) THEN 0 ELSE 1)
       /\ \A id \in PeerIds \ {last'.peerId} :
            MapGet(connections', id) = MapGet(connections, id)]_vars

\* a session replaced an open one registered under the same identifier,
\* next to an entry of another identifier
C7_Witness ==
  /\ last.op = "connection"
  /\ \E c \in Conns \ {last.conn} :
       GeneratePeerId(c) = last.peerId /\ connState[c] = "open"
  /\ MapGet(connections, last.peerId) = last.conn
  /\ MapSize(connections) = 2

\* C8: after the close event of a session with identifier id, get(id) is
\* empty; the size shrank by one if id was registered and is unchanged if
\* not; no error is raised and all other entries are unchanged.
C8_UnregisterRemovesOrNoop ==
  [][last'.op = "close" =>
       /\ MapGet(connections', last'.peerId) = NoConn
       /\ MapSize(connections') =
            MapSize(connections) - (IF MapHas(connections, last'.peerId) THEN 1 ELSE 0)
       /\ \A id \in PeerIds \ {last'.peerId} :
            MapGet(connections', id) = MapGet(connections, id)
       /\ ~last'.uncaught /\ ~last'.logged]_vars

\* a session closed and the entry of another identifier is still there
C8_Witness ==
  /\ last.op = "close"
  /\ MapSize(connections) = 1
  /\ ~MapHas(connections, last.peerId)

\* C9, as stated: a send to an unregistered identifier fails with the
\* caller-visible error NoSuchPeer and writes nothing.
C9_SendToAbsentFailsNoSuchPeer ==
  (last.op = "send" /\ ~MapHas(connections, last.peerId)) =>
    (last.ret = "NoSuchPeer" /\ writes = <<>>)

\* C9, amended: a send to an unregistered identifier is a silent no-op: it
\* returns nothing and raises nothing, writes to no session, and leaves
\* registry and history unchanged.
C9_SendToAbsentIsSilentNoop ==
  [][(last'.op = "send" /\ ~MapHas(connections, last'.peerId)) =>
       /\ last'.ret = "undefined"
       /\ ~last'.logged /\ ~last'.uncaught
       /\ writes' = <<>>
       /\ connections' = connections
       /\ messageHistory' = messageHistory
       /\ proc' = proc]_vars

\* a send to an unregistered identifier while another one is registered
C9_Witness ==
  /\ last.op = "send"
  /\ ~MapHas(connections, last.peerId)
  /\ connections # <<>>
  /\ Len(sends) = 1

\* C10: a write that fails inside a send - the welcome of a new connection or
\* the pong of a ping - is logged, does not leave the event handler as an
\* unhandled exception, starts no shutdown, and the session stays registered.
C10_SendWriteFailureRecovered ==
  (last.op \in {"connection", "data"} /\ \E j \in 1..Len(writes) : ~writes[j].ok) =>
    /\ last.logged
    /\ ~last.uncaught
    /\ ends = <<>>
    /\ \A j \in 1..Len(writes) : MapGet(connections, last.peerId) = writes[j].conn

\* ---------------------------------------------------------------- C11..C20
IsShutdown(l) == l.op = "shutdown" \/ (l.op = "input" /\ l.handler = "shutdown")

FailedWrites == {j \in 1..Len(writes) : ~writes[j].ok}

\* C11: the registry changes only in the handler of a new connection and in
\* the close hook; sends, broadcasts, pings, routed data, error events, lines
\* of the user and the shutdown leave it as it was, also when a write or an
\* end throws
C11_RegistryChangesOnlyOnConnectAndClose ==
  [][connections' # connections => last'.op \in {"connection", "close"}]_vars

C11_Witness ==
  /\ last.op = "input" /\ last.handler = "broadcast"
  /\ FailedWrites # {}
  /\ Len(connections) = 2
  /\ messageHistory # <<>>

\* C12 (as stated): broadcast returns a report of attempted and failed writes
C12_BroadcastReturnsReport == last.op = "broadcast" => last.ret = "report"

\* C12: broadcast returns nothing; it makes one write attempt per registered
\* session, none when the registry is empty, logs when a write throws, and
\* leaves the history as it was
C12_BroadcastReturnsNothing ==
  [][last'.op = "broadcast" =>
       /\ last'.ret = "undefined"
       /\ Len(writes') = MapSize(connections)
       /\ \A j \in 1..Len(writes') : writes'[j].conn = connections[j].conn
       /\ last'.logged = (\E j \in 1..Len(writes') : ~writes'[j].ok)
       /\ messageHistory' = messageHistory]_vars

C12_Witness ==
  /\ last.op = "broadcast"
  /\ Len(writes) = 2 /\ FailedWrites # {}
  /\ messageHistory # <<>>

\* C13: the handler of a new connection registers it under its derived
\* identifier, attaches its hooks and then sends one welcome, which is
\* written on the new session and on no other
C13_ConnectionRegistersHooksWelcomes ==
  last.op = "connection" =>
    /\ last.peerId = GeneratePeerId(last.conn)
    /\ MapGet(connections, last.peerId) = last.conn
    /\ connState[last.conn] = "open"
    /\ sends = <<[peerId |-> last.peerId, message |-> CreateWelcomeMessage(Name, now)]>>
    /\ Len(writes) = 1
    /\ writes[1].conn = last.conn
    /\ writes[1].text = JsonStringify(CreateWelcomeMessage(Name, now))

C13_Witness ==
  /\ last.op = "connection" /\ last.conn = 2
  /\ connState[1] = "open"
  /\ writes # <<>> /\ writes[1].ok

\* C14: the close hook unregisters the identifier of its session, and a
\* session whose close was delivered stays closed and is never in the
\* registry again
C14_CloseUnregistersForGood ==
  [][/\ last'.op = "close" => ~MapHas(connections', last'.peerId)
     /\ \A c \in Conns : connState[c] = "closed" =>
          connState'[c] = "closed" /\ c \notin Registered(connections')]_vars

C14_Witness ==
  /\ connState[1] = "closed"
  /\ MapGet(connections, GeneratePeerId(1)) = 2

\* C15: the error hook only logs: the registry, the sessions and the history
\* are as before, so a registered session stays registered after its error
C15_ErrorKeepsSessionRegistered ==
  [][last'.op = "error" =>
       /\ connections' = connections
       /\ connState' = connState
       /\ connState'[last'.conn] = "open"
       /\ messageHistory' = messageHistory
       /\ proc' = proc
       /\ writes' = <<>> /\ ends' = <<>>]_vars

C15_Witness ==
  /\ last.op = "error"
  /\ MapGet(connections, last.peerId) = last.conn
  /\ messageHistory # <<>>

\* C16: a routed message that is not a ping writes to no session and changes
\* nothing but the history, which gains the one entry
C16_OnlyPingWrites ==
  [][(last'.op = "data" /\ last'.decoded /\ last'.handler # "ping") =>
       /\ writes' = <<>> /\ sends' = <<>> /\ ends' = <<>>
       /\ connections' = connections
       /\ connState' = connState
       /\ proc' = proc
       /\ Len(messageHistory') = Len(messageHistory) + 1
       /\ IsPrefix(messageHistory, messageHistory')]_vars

C16_Witness ==
  /\ last.op = "data" /\ last.handler = "broadcast"
  /\ Len(connections) = 2
  /\ writes = <<>>

\* C17: a line that is not empty and does not start with a slash is
\* broadcast whole exactly when a session is registered; with none there is
\* a warning and nothing else; the empty line does nothing
C17_PlainLineBroadcastIffPeers ==
  [][last'.op = "input" =>
       /\ connections' = connections
       /\ messageHistory' = messageHistory
       /\ (last'.input # "" /\ SubSeq(last'.input, 1, 1) # "/") =>
            IF MapSize(connections) > 0
            THEN /\ last'.handler = "broadcast"
                 /\ Len(writes') = MapSize(connections)
                 /\ \A j \in 1..Len(writes') :
                      writes'[j].text =
                        JsonStringify(CreateBroadcastMessage(Name, Str(last'.input), now))
            ELSE /\ last'.handler = "warn" /\ last'.logged
                 /\ writes' = <<>> /\ ends' = <<>> /\ steps' = <<>>
                 /\ proc' = proc
       /\ last'.input = "" =>
            /\ last'.handler = "none" /\ ~last'.logged
            /\ writes' = <<>> /\ ends' = <<>> /\ steps' = <<>>
            /\ proc' = proc]_vars

C17_Witness ==
  /\ last.op = "input" /\ last.input = "hello world"
  /\ Len(writes) = 2

\* C18: /ping pings every session once, /broadcast broadcasts the rest of
\* the line once even with no session, /quit and /exit run the shutdown once,
\* and /help, /peers, /history, /status and /topic change nothing
C18_CommandsMapToOneAction ==
  [][last'.op = "input" =>
       /\ last'.input = "/ping" =>
            /\ last'.handler = "pingAllPeers"
            /\ Len(writes') = MapSize(connections)
            /\ \A j \in 1..Len(writes') :
                 writes'[j].text = JsonStringify(CreatePingMessage(Name, now))
            /\ steps' = <<>> /\ proc' = proc
       /\ last'.input \in {"/broadcast hi there", "/broadcast"} =>
            /\ last'.handler = "broadcast"
            /\ last'.arg = (IF last'.input = "/broadcast" THEN Str("") ELSE Str("hi there"))
            /\ Len(writes') = MapSize(connections)
            /\ \A j \in 1..Len(writes') :
                 writes'[j].text = JsonStringify(CreateBroadcastMessage(Name, last'.arg, now))
            /\ steps' = <<>> /\ proc' = proc
       /\ last'.input \in {"/quit", "/exit"} =>
            /\ last'.handler = "shutdown"
            /\ writes' = <<>>
            /\ Len(ends') = MapSize(connections)
            /\ Len(SelectSeq(steps', LAMBDA x : x = "destroy")) = 1
            /\ proc' = "destroying"
       /\ last'.input \in {"/help", "/peers", "/history", "/status", "/topic"} =>
            /\ last'.handler = SubSeq(last'.input, 2, Len(last'.input))
            /\ writes' = <<>> /\ ends' = <<>> /\ steps' = <<>>
            /\ UNCHANGED <<connections, connState, messageHistory, now, proc, pollVars>>]_vars

C18_Witness ==
  /\ last.op = "input" /\ last.input = "/exit"
  /\ Len(ends) = 2
  /\ proc = "destroying"

StepRank(x) == CASE x = "abort" -> 1 [] x = "end" -> 2 [] x = "destroy" -> 3 [] OTHER -> 4

\* C19: shutdown aborts the wait of the poll, then ends every session, then
\* destroys the swarm; an end that throws does not stop the later steps, and
\* once the destroy settles, resolved or rejected, the process exits
C19_ShutdownOrderAndExit ==
  /\ [](IsShutdown(last) =>
         /\ \A i, j \in 1..Len(steps) : i < j => StepRank(steps[i]) <= StepRank(steps[j])
         /\ steps[Len(steps)] = "destroy"
         /\ Len(SelectSeq(steps, LAMBDA x : x = "destroy")) = 1
         /\ Len(SelectSeq(steps, LAMBDA x : x = "end")) = MapSize(connections)
         /\ Len(ends) = MapSize(connections)
         /\ abortControllers = {}
         /\ pollPc # "waiting"
         /\ proc = "destroying")
  /\ (proc = "destroying" ~> proc = "exited")

C19_Witness ==
  /\ IsShutdown(last)
  /\ steps = <<"abort", "end", "end", "destroy">>
  /\ \E j \in 1..Len(ends) : ~ends[j].ok

\* C20: a shutdown invoked while an earlier one awaits the destroy of the
\* swarm ends no session and destroys nothing again
C20_ShutdownIdempotent ==
  [][(proc = "destroying" /\ IsShutdown(last')) => (ends' = <<>> /\ steps' = <<>>)]_vars

\* ---------------------------------------------------------------- C21..C30
MessageFields == {"type", "from", "timestamp", "message", "originalTimestamp"}

WritesOn(ws, c) == {j \in 1..Len(ws) : ws[j].conn = c}

\* C21: closeAllConnections calls end once on every registered session, in
\* the order of the registry; an end that throws is logged and the sessions
\* after it are still ended
C21_CloseAllEndsEverySession ==
  last.op = "shutdown" =>
    /\ Len(ends) = MapSize(connections)
    /\ \A j \in 1..Len(ends) : ends[j].conn = connections[j].conn
    /\ last.logged = (\E j \in 1..Len(ends) : ~ends[j].ok)

C21_Witness ==
  /\ last.op = "shutdown"
  /\ Len(ends) = 2
  /\ ~ends[1].ok /\ ends[2].ok

C23_PollBounded ==
  /\ [](/\ pollIndex <= 6
        /\ pollPc = "waiting" => pollIndex < 6
        /\ pollPc \in {"idle", "joining"} => pollIndex = 0)
  /\ [][/\ (last'.op \in {"flushed", "delay"} /\ pollPc' = "waiting") => last'.arg = Num(5000)
        /\ (last'.op = "delay" /\ MapSize(connections) > 0) =>
             (pollPc' = "done" /\ pollIndex' = pollIndex)
        /\ (last'.op = "delay" /\ MapSize(connections) = 0) => pollIndex' = pollIndex + 1
        /\ pollPc = "done" =>
             (pollPc' = "done" /\ pollIndex' = pollIndex /\ last'.op \notin {"flushed", "delay"})]_vars

C23_Witness ==
  /\ last.op = "delay"
  /\ pollPc = "done" /\ pollIndex = 2
  /\ connections # <<>>

\* C24: once shutdown has begun, no wait of the poll is pending and no
\* controller is tracked, whenever the shutdown came
C24_NoPollAfterShutdown ==
  proc \in {"destroying", "exited"} => (pollPc # "waiting" /\ abortControllers = {})

\* C25: pingAllPeers writes one ping of the own name to every registered
\* session, in the order of the registry, also after a write that threw, and
\* leaves the registry as it was
C25_PingWritesEverySession ==
  [][last'.op = "ping" =>
       /\ Len(writes') = MapSize(connections)
       /\ \A j \in 1..Len(writes') :
            /\ writes'[j].conn = connections[j].conn
            /\ ParseMessage(writes'[j].text).obj["type"] = Str("ping")
            /\ ParseMessage(writes'[j].text).obj["from"] = Str(Name)
            /\ writes'[j].text = writes'[1].text
       /\ connections' = connections]_vars

C25_Witness ==
  /\ last.op = "ping"
  /\ Len(writes) = 2
  /\ ~writes[1].ok /\ writes[2].ok
  /\ Len(connections) = 2

C28_RecordedBeforeDispatch ==
  [][(last'.op = "data" /\ last'.decoded) =>
       /\ Len(messageHistory') = Len(messageHistory) + 1
       /\ SubSeq(messageHistory', 1, Len(messageHistory)) = messageHistory
       /\ messageHistory'[Len(messageHistory')]["peerId"] = Str(last'.peerId)
       /\ \A f \in MessageFields :
            messageHistory'[Len(messageHistory')][f] = Spread(ParseMessage(last'.text))[f]
       /\ (\E j \in 1..Len(writes') : ~writes'[j].ok) => (last'.logged /\ ~last'.uncaught)]_vars

C28_Witness ==
  /\ last.op = "data" /\ last.handler = "ping"
  /\ writes # <<>> /\ ~writes[1].ok
  /\ messageHistory # <<>>
  /\ messageHistory[Len(messageHistory)]["type"] = Str("ping")

\* C29: a broadcast or a ping of every peer writes once to each session that
\* is registered when it is called and to no other session
C29_FanOutOverSnapshot ==
  [][last'.op \in {"broadcast", "ping"} =>
       \A c \in Conns :
         Cardinality(WritesOn(writes', c)) = (IF c \in Registered(connections) THEN 1 ELSE 0)]_vars

C29_Witness ==
  /\ last.op = "ping"
  /\ connState[1] = "closed"
  /\ Registered(connections) = {2, 3}
  /\ Len(writes) = 2

\* the hex digits of the first four bytes of a key
HexPrefix(key) == ToHex(SubSeq(key, 1, 4))

\* C30: a session is registered under the first 8 hex characters of its
\* remote public key, and no identifier is registered twice
C30_OneSessionPerIdentifier ==
  /\ \A i \in 1..Len(connections) :
       /\ connections[i].peerId = HexPrefix(RemotePublicKey(connections[i].conn))
       /\ Len(connections[i].peerId) = 8
  /\ \A i, j \in 1..Len(connections) : connections[i].peerId = connections[j].peerId => i = j
  /\ \A c, d \in Conns :
       SubSeq(RemotePublicKey(c), 1, 4) = SubSeq(RemotePublicKey(d), 1, 4) =>
         GeneratePeerId(c) = GeneratePeerId(d)

C30_Witness ==
  /\ connState[1] = "open" /\ connState[2] = "open"
  /\ connections = <<[peerId |-> "abcd0100", conn |-> 2]>>

\* ---------------------------------------------------------------- C31..C38
\* C31: the close of one session does not unregister another session: a
\* newer session registered under the identifier of the closing one stays
C31_CloseLeavesNewerSession ==
  [][last'.op = "close" =>
       \A c \in Registered(connections) \ {last'.conn} : c \in Registered(connections')]_vars

\* C32: no session whose close event was delivered is in the registry
C32_NoClosedSessionRegistered ==
  \A i \in 1..Len(connections) : connState[connections[i].conn] # "closed"

C32_Witness ==
  /\ last.op = "close" /\ last.conn = 2
  /\ connState[1] = "open" /\ connState[2] = "closed"
  /\ GeneratePeerId(1) = GeneratePeerId(2)
  /\ ~MapHas(connections, GeneratePeerId(2))
  /\ messageHistory # <<>>

\* C33: the pong that answers a ping is written on the session the ping
\* came in on
C33_PongOnSessionOfPing ==
  (last.op = "data" /\ last.handler = "ping") =>
    (Len(writes) = 1 /\ writes[1].conn = last.conn)

\* C34: the peerId of a history entry is the identifier of the session the
\* message came in on and its received time is the local clock, whatever
\* peerId, received and from the message carries
C34_EntryPeerIdFromSession ==
  [][(last'.op = "data" /\ last'.decoded) =>
       /\ Len(messageHistory') = Len(messageHistory) + 1
       /\ messageHistory'[Len(messageHistory')]["peerId"] = Str(GeneratePeerId(last'.conn))
       /\ messageHistory'[Len(messageHistory')]["received"] = Num(now)]_vars

C34_Witness ==
  /\ last.op = "data" /\ last.text = SpoofWire
  /\ messageHistory # <<>>
  /\ messageHistory[Len(messageHistory)]["peerId"] = Str(GeneratePeerId(last.conn))
  /\ messageHistory[Len(messageHistory)]["from"] = Str("self")

\* the validity rules by type: a recognized type, a non-empty from, a
\* numeric timestamp, a non-empty message for welcome, chat and broadcast,
\* a numeric originalTimestamp for pong
ValidOnWire(message) ==
  /\ message.kind = "object"
  /\ message.obj["type"] \in KnownTypes
  /\ message.obj["from"].k = "str" /\ message.obj["from"].s # ""
  /\ message.obj["timestamp"].k = "num"
  /\ message.obj["type"] \in {Str("welcome"), Str("chat"), Str("broadcast")} =>
       (message.obj["message"].k = "str" /\ message.obj["message"].s # "")
  /\ message.obj["type"] = Str("pong") => message.obj["originalTimestamp"].k = "num"

\* C35: every text this node writes on a session is a valid message
C35_WrittenMessagesValid ==
  \A j \in 1..Len(writes) : ValidOnWire(ParseMessage(writes[j].text))

RecognizedCommands ==
  {"/help", "/peers", "/ping", "/broadcast", "/history", "/status", "/topic", "/quit", "/exit"}

\* C36: a line that starts with a slash and is no command writes nothing
C36_UnknownCommandWritesNothing ==
  (/\ last.op = "input"
   /\ last.input # ""
   /\ SubSeq(last.input, 1, 1) = "/"
   /\ Command(last.input) \notin RecognizedCommands) => writes = <<>>

Pongs(hist) == {i \in 1..Len(hist) : hist[i]["type"] = Str("pong")}

PongsFor(hist, t) == {i \in Pongs(hist) : hist[i]["originalTimestamp"] = Num(t)}

\* the texts of one type in flight one way whose field f is the time t
InFlight(texts, type, f, t) ==
  Cardinality({j \in 1..Len(texts) : /\ ParseMessage(texts[j]).obj["type"] = Str(type)
                                     /\ ParseMessage(texts[j]).obj[f] = Num(t)})

PingsAt(t) == Cardinality({j \in 1..Len(net.pings) : net.pings[j] = t})

Quiet == net.ab = <<>> /\ net.ba = <<>>

\* C37: for every time t, each ping this node sent at t is in flight, or its
\* pong with originalTimestamp t is in flight, or that pong is in the
\* history (one pong per ping, nothing after a pong), the same for the
\* pings of the second node, and in the end nothing is in flight and every
\* ping has its pong in the history
C37_PingPongQuiesces ==
  /\ [](\A t \in 0..MaxClock :
          InFlight(net.ab, "ping", "timestamp", t) + InFlight(net.ba, "pong", "originalTimestamp", t)
            + Cardinality(PongsFor(messageHistory, t)) = PingsAt(t))
  /\ [](InFlight(net.ba, "ping", "timestamp", RemoteTime)
          + InFlight(net.ab, "pong", "originalTimestamp", RemoteTime)
          + Cardinality(PongsFor(net.peerHistory, RemoteTime)) = net.peerPings)
  /\ <>[](/\ Quiet
          /\ \A t \in 0..MaxClock : Cardinality(PongsFor(messageHistory, t)) = PingsAt(t)
          /\ Cardinality(Pongs(net.peerHistory)) = net.peerPings)

C37_Witness ==
  /\ now = 1
  /\ PongsFor(messageHistory, 0) # {}
  /\ \E i \in PongsFor(messageHistory, 0) : messageHistory[i]["received"] = Num(1)
  /\ Pongs(net.peerHistory) # {}
  /\ Quiet

====
